---- MODULE Spec2Model ----
(***************************************************************************)
(* Model of the type-level assertion tsAssertExtendsExact of ts-assertions *)
(* (NoExtraProps, IfExtraProps, IsExtends, IfExtendsWithoutExtraProps).    *)
(*                                                                         *)
(* A type is the set of its union alternatives (the empty set is `never`). *)
(* An alternative is a primitive (possibly a literal), an object type with *)
(* named, possibly optional properties, or an array type.  Conditional     *)
(* types are evaluated as the compiler evaluates them under                *)
(* strictNullChecks: a conditional type whose checked type is a naked type *)
(* parameter distributes over the alternatives of its argument, and        *)
(* `extends` is assignability.                                             *)
(***************************************************************************)
EXTENDS Integers, FiniteSets, Sequences, TLC

VARIABLES candidate, expected, pc, verdict, call, outcome

vars == <<candidate, expected, pc, verdict, call, outcome>>

-----------------------------------------------------------------------------
(* Bounds of the checked universe of types.                                *)

\* widest union in the universe (of primitives in a leaf type, of objects in
\* a property type, of alternatives in a top-level union)
MaxAlts == 2
\* largest literal value; the literal types are 2 .. MaxLit
MaxLit == 4

-----------------------------------------------------------------------------
(* The data model of types.                                                *)

\* a primitive alternative; lit = 0 is the non-literal kind itself
Prim(base, lit) == [k |-> "prim", base |-> base, lit |-> lit]
\* an object alternative: a set of properties with distinct names
Obj(fields) == [k |-> "obj", f |-> fields]
\* an array alternative with its element type
Arr(elem) == [k |-> "arr", e |-> elem]
\* one property of an object type
Field(name, shape, optional) == [n |-> name, s |-> shape, opt |-> optional]

Never == {}
Number == Prim("number", 0)
String == Prim("string", 0)
Undefined == Prim("undefined", 0)
Lit(v) == Prim("number", v)

\* keyof T for an object alternative
KeyOf(alt) == {fld.n : fld \in alt.f}
PropOf(alt, K) == CHOOSE fld \in alt.f : fld.n = K
\* Record<string, never> extends Pick<T, K>: K is an optional property of T
IsOptionalKey(alt, K) == PropOf(alt, K).opt
\* T[K]: the declared type, with undefined added for an optional property
IndexedAccess(alt, K) ==
    PropOf(alt, K).s \cup (IF PropOf(alt, K).opt THEN {Undefined} ELSE {})

\* `T extends object` for one alternative: objects and arrays, no primitive
ExtendsObject(alt) == alt.k \in {"obj", "arr"}
\* `T extends readonly unknown[]` for one alternative
ExtendsArray(alt) == alt.k = "arr"

-----------------------------------------------------------------------------
(* Assignability, the relation behind `extends`.                           *)

RECURSIVE IsAssignable(_, _), AltAssignable(_, _)

\* the weak-type check: a target whose properties are all optional rejects
\* a source that has properties but shares none with it
WeakTypeMismatch(s, t) ==
    /\ t.f # {}
    /\ \A tp \in t.f : tp.opt
    /\ s.f # {}
    /\ KeyOf(s) \cap KeyOf(t) = {}

PropsAssignable(s, t) ==
    /\ ~WeakTypeMismatch(s, t)
    /\ \A K \in KeyOf(t) :
          IF K \in KeyOf(s)
          THEN /\ IsOptionalKey(s, K) => IsOptionalKey(t, K)
               /\ IsAssignable(IndexedAccess(s, K), IndexedAccess(t, K))
          ELSE IsOptionalKey(t, K)

\* assignability of primitives decided by the base type alone, the literal
\* value ignored
AltAssignableBaseOnly(s, t) ==
    CASE s.k = "prim" /\ t.k = "prim" -> s.base = t.base
      [] s.k = "prim" /\ t.k = "obj" -> s.base # "undefined" /\ t.f = {}
      [] s.k = "arr" /\ t.k = "obj" -> t.f = {}
      [] s.k = "arr" /\ t.k = "arr" -> IsAssignable(s.e, t.e)
      [] s.k = "obj" /\ t.k = "obj" -> PropsAssignable(s, t)
      [] OTHER -> FALSE

AltAssignable(s, t) ==
    CASE s.k = "prim" /\ t.k = "prim" ->
            s.base = t.base /\ (t.lit = 0 \/ t.lit = s.lit)
      [] s.k = "prim" /\ t.k = "obj" -> s.base # "undefined" /\ t.f = {}
      [] s.k = "arr" /\ t.k = "obj" -> t.f = {}
      [] s.k = "arr" /\ t.k = "arr" -> IsAssignable(s.e, t.e)
      [] s.k = "obj" /\ t.k = "obj" -> PropsAssignable(s, t)
      [] OTHER -> FALSE

\* S extends T without distribution: every alternative of S is assignable
\* to some alternative of T
IsAssignable(S, T) == \A s \in S : \E t \in T : AltAssignable(s, t)

-----------------------------------------------------------------------------
(* The result of NoExtraProps is a union of the literal types 0 and 1 and  *)
(* of undefined, kept as a set of the three names.                         *)

ZeroIfHasZero(T) == IF "0" \in T THEN {"0"} ELSE T
\* OneIfHasOne without the collapse to 1
OneIfHasOneKeepsUnion(T) == T
OneIfHasOne(T) == IF "1" \in T THEN {"1"} ELSE T
OneIfNever(T) == IF T = {} THEN {"1"} ELSE T

RECURSIVE NoExtraProps(_, _)

\* the template with a plain `extends` on the property types in place of
\* the recursion
MappedPropertyShallow(ActualT, ExpectedT, K) ==
    IF K \in KeyOf(ActualT)
    THEN IF IsOptionalKey(ActualT, K) /\ ~IsOptionalKey(ExpectedT, K)
         THEN {"0"}
         ELSE IF IsAssignable(IndexedAccess(ActualT, K), IndexedAccess(ExpectedT, K))
              THEN {"1"}
              ELSE {"0"}
    ELSE IF IsOptionalKey(ExpectedT, K) THEN {"1"} ELSE {"0"}

\* the template with an absent key rejected even when ExpectedT makes it
\* optional
MappedPropertyAbsentRejected(ActualT, ExpectedT, K) ==
    IF K \in KeyOf(ActualT)
    THEN IF IsOptionalKey(ActualT, K) /\ ~IsOptionalKey(ExpectedT, K)
         THEN {"0"}
         ELSE NoExtraProps(IndexedAccess(ActualT, K),
                           IndexedAccess(ExpectedT, K))
    ELSE {"0"}

\* the template of the mapped type for the key K of ExpectedT
MappedProperty(ActualT, ExpectedT, K) ==
    IF K \in KeyOf(ActualT)
    THEN IF IsOptionalKey(ActualT, K)
         THEN IF IsOptionalKey(ExpectedT, K)
              THEN NoExtraProps(IndexedAccess(ActualT, K),
                                IndexedAccess(ExpectedT, K))
              ELSE {"0"}
         ELSE NoExtraProps(IndexedAccess(ActualT, K),
                           IndexedAccess(ExpectedT, K))
    ELSE IF IsOptionalKey(ExpectedT, K) THEN {"1"} ELSE {"0"}

\* { [K in keyof ExpectedT]: ... }[keyof ExpectedT]: the mapped type is
\* homomorphic, so an optional key of ExpectedT stays optional and reading
\* it adds undefined
MappedIndexed(ActualT, ExpectedT) ==
    UNION { MappedProperty(ActualT, ExpectedT, K)
              \cup (IF IsOptionalKey(ExpectedT, K) THEN {"undefined"} ELSE {})
            : K \in KeyOf(ExpectedT) }

\* the inner conditional without the Exclude<keyof ActualT, keyof ExpectedT>
\* test
ExpectedBranchNoKeyCheck(ActualT, ExpectedT) ==
    IF ~ExtendsObject(ExpectedT) THEN {"0"}
    ELSE IF ExtendsArray(ActualT)
         THEN IF ExtendsArray(ExpectedT)
              THEN NoExtraProps(ActualT.e, ExpectedT.e)
              ELSE {"0"}
         ELSE IF ExtendsArray(ExpectedT)
              THEN {"0"}
              ELSE ZeroIfHasZero(OneIfNever(MappedIndexed(ActualT, ExpectedT)))

\* the inner conditional with a plain `extends` on the element types in
\* place of the recursion
ExpectedBranchArrayShallow(ActualT, ExpectedT) ==
    IF ~ExtendsObject(ExpectedT) THEN {"0"}
    ELSE IF ExtendsArray(ActualT)
         THEN IF ExtendsArray(ExpectedT)
              THEN IF IsAssignable(ActualT.e, ExpectedT.e) THEN {"1"} ELSE {"0"}
              ELSE {"0"}
         ELSE IF ExtendsArray(ExpectedT)
              THEN {"0"}
              ELSE IF KeyOf(ActualT) \ KeyOf(ExpectedT) = {}
                   THEN ZeroIfHasZero(OneIfNever(MappedIndexed(ActualT, ExpectedT)))
                   ELSE {"0"}

\* the body of the inner conditional for one object ActualT and one
\* alternative ExpectedT of the expected type
ExpectedBranch(ActualT, ExpectedT) ==
    IF ~ExtendsObject(ExpectedT) THEN {"0"}
    ELSE IF ExtendsArray(ActualT)
         THEN IF ExtendsArray(ExpectedT)
              THEN NoExtraProps(ActualT.e, ExpectedT.e)
              ELSE {"0"}
         ELSE IF ExtendsArray(ExpectedT)
              \* keyof of an array holds none of the candidate's keys, and
              \* the mapped array read at "length" holds number, so 0
              THEN {"0"}
              ELSE IF KeyOf(ActualT) \ KeyOf(ExpectedT) = {}
                   THEN ZeroIfHasZero(OneIfNever(MappedIndexed(ActualT, ExpectedT)))
                   ELSE {"0"}

\* the body of the outer conditional for one alternative ActualT
ActualBranch(ActualT, ExpectedTMaybeUnion) ==
    IF ExtendsObject(ActualT)
    THEN OneIfHasOne(UNION { ExpectedBranch(ActualT, ExpectedT)
                             : ExpectedT \in ExpectedTMaybeUnion })
    ELSE IF IsAssignable({ActualT}, ExpectedTMaybeUnion) THEN {"1"} ELSE {"0"}

NoExtraProps(ActualTMaybeUnion, ExpectedTMaybeUnion) ==
    ZeroIfHasZero(UNION { ActualBranch(ActualT, ExpectedTMaybeUnion)
                          : ActualT \in ActualTMaybeUnion })

MATCH == "MATCH"
REJECTED_NOT_SUBTYPE == "REJECTED_NOT_SUBTYPE"
REJECTED_EXTRA_PROPERTIES == "REJECTED_EXTRA_PROPERTIES"
Verdicts == {MATCH, REJECTED_NOT_SUBTYPE, REJECTED_EXTRA_PROPERTIES}

\* CandidateT extends ExpectedT ? TrueT : FalseT, distributed over the
\* alternatives of CandidateT: the union of the branches taken
IsExtends(CandidateT, ExpectedT, TrueT, FalseT) ==
    UNION { IF IsAssignable({c}, ExpectedT) THEN TrueT ELSE FalseT
            : c \in CandidateT }

IfExtraProps(ActualT, ExpectedT, TrueT, FalseT) ==
    IF "1" \in NoExtraProps(ActualT, ExpectedT) THEN FalseT ELSE TrueT

\* the two tests in the other order: the plain `extends` first, the exact
\* comparison only for a candidate that extends
IfExtendsSubtypeFirst(CandidateT, ExpectedT) ==
    IsExtends(CandidateT, ExpectedT,
              IfExtraProps(CandidateT, ExpectedT,
                           {REJECTED_EXTRA_PROPERTIES}, {MATCH}),
              {REJECTED_NOT_SUBTYPE})

\* the type of the rest parameter, as the set of the outcomes in its union:
\* [] is MATCH, the two one-element tuples are the two rejections
IfExtendsWithoutExtraProps(CandidateT, ExpectedT) ==
    IfExtraProps(CandidateT, ExpectedT,
                 {REJECTED_EXTRA_PROPERTIES},
                 IsExtends(CandidateT, ExpectedT, {MATCH}, {REJECTED_NOT_SUBTYPE}))

\* the call tsAssertExtendsExact<CandidateT, ExpectedT>() type-checks when
\* the empty argument list is one of the alternatives of the rest parameter
Accepts(args) == MATCH \in args

-----------------------------------------------------------------------------
(* The universe of types the assertion is applied to.                      *)

Prims == {Number, String, Undefined} \cup {Lit(v) : v \in 2..MaxLit}

\* a union never keeps a literal beside its own base type
Reduced(S) == \A p \in S : p.lit # 0 => Prim(p.base, 0) \notin S

\* never, the primitives, and the unions of literals of one base type
LeafTypes ==
    {S \in SUBSET Prims : /\ Cardinality(S) <= MaxAlts
                          /\ Reduced(S)
                          /\ \A p, q \in S : p.base = q.base}

\* the choices for one property: absent, or present with a type and a flag
PropChoices(name, Types, Opts) ==
    {{}} \cup {{Field(name, t, o)} : t \in Types, o \in Opts}

\* the object alternatives whose property a ranges over TypesA and whose
\* property b ranges over TypesB
Objects(TypesA, OptsA, TypesB, OptsB) ==
    {Obj(fa \cup fb) : fa \in PropChoices("a", TypesA, OptsA),
                       fb \in PropChoices("b", TypesB, OptsB)}

Unions(Alts) == {S \in SUBSET Alts : Cardinality(S) >= 2 /\ Cardinality(S) <= MaxAlts}

\* objects of leaf-typed properties
FlatObjs == Objects(LeafTypes, BOOLEAN, {{Number}}, BOOLEAN)

\* the objects that occur as the type of a property or of an array element
SmallObjs == Objects({{Number}}, {FALSE}, {{Number}}, {FALSE})
InnerObjs == Objects({{Number}, {Lit(2)}, {Lit(2), Lit(3)}}, {FALSE}, {{Number}}, {FALSE})
InnerTypes == {{o} : o \in InnerObjs} \cup Unions(SmallObjs) \cup {Never}

\* objects with a nested object, a union of objects or never at property b
NestedObjs == Objects({{Number}}, {FALSE}, InnerTypes, BOOLEAN)

Arrays == {Arr(t) : t \in LeafTypes \cup {{o} : o \in SmallObjs}}

\* the alternatives of the top-level unions
TopAlts ==
    SmallObjs \cup {Number, Arr(Never), Arr({Number}),
                    Obj({Field("b", Never, FALSE)}),
                    Obj({Field("b", {Obj({Field("a", {Number}, FALSE)})}, FALSE)})}

Universe ==
    LeafTypes
      \cup {{o} : o \in FlatObjs \cup NestedObjs \cup Arrays}
      \cup Unions(TopAlts)

\* no call of another function of the library is in flight
NoCall == [fn |-> "none"]
NoOutcome == [kind |-> "pending"]

Init ==
    /\ candidate \in Universe
    /\ expected \in Universe
    /\ pc = "start"
    /\ verdict = {}
    /\ call = NoCall
    /\ outcome = NoOutcome

TsAssertExtendsExact ==
    /\ pc = "start"
    /\ call = NoCall
    /\ verdict' = IfExtendsWithoutExtraProps(candidate, expected)
    /\ pc' = "done"
    /\ UNCHANGED <<candidate, expected, call, outcome>>

Next == TsAssertExtendsExact

Spec == Init /\ [][Next]_vars

TypeOK ==
    /\ pc \in {"start", "done"}
    /\ verdict \subseteq Verdicts

-----------------------------------------------------------------------------
(* Vocabulary of the properties.                                           *)

Done == pc = "done"

IsSingle(T) == Cardinality(T) = 1
TheAlt(T) == CHOOSE x \in T : TRUE
\* a type with exactly one alternative, a non-array object
IsSingleObject(T) == IsSingle(T) /\ TheAlt(T).k = "obj"
\* a non-empty union of primitives
IsLeaf(T) == T # {} /\ \A x \in T : x.k = "prim"

\* the verdict of the assertion on a pair of types
match(c, e) == IfExtendsWithoutExtraProps(c, e)

RECURSIVE ExactAlt(_, _)
\* every alternative of C has a corresponding alternative of E of the same
\* kind of which it is a structural subtype and which has every field it
\* has, at every depth
Exact(C, E) == \A c \in C : \E e \in E : ExactAlt(c, e)
ExactAlt(c, e) ==
    CASE c.k = "obj" /\ e.k = "obj" ->
            /\ KeyOf(c) \subseteq KeyOf(e)
            /\ AltAssignable(c, e)
            /\ \A K \in KeyOf(c) : Exact(IndexedAccess(c, K), IndexedAccess(e, K))
      [] c.k = "arr" /\ e.k = "arr" -> Exact(c.e, e.e)
      [] c.k = "prim" /\ e.k = "prim" -> AltAssignable(c, e)
      [] OTHER -> FALSE

RECURSIVE HasNestedExtra(_, _)
\* the object c, or an object nested in it below fields whose expected type
\* is a single object, has a field that the corresponding object of e lacks
HasNestedExtra(c, e) ==
    \/ KeyOf(c) \ KeyOf(e) # {}
    \/ \E K \in KeyOf(c) \cap KeyOf(e) :
          /\ IsSingleObject(PropOf(e, K).s)
          /\ \E c2 \in PropOf(c, K).s :
                c2.k = "obj" /\ HasNestedExtra(c2, TheAlt(PropOf(e, K).s))

RECURSIVE ConformsAtEveryDepth(_, _)
\* no object of c at any depth has a field the corresponding object of e
\* lacks, every field of e is met by a field of c unless e makes it optional,
\* and every leaf of c is a subtype of the corresponding leaf of e
ConformsAtEveryDepth(c, e) ==
    /\ KeyOf(c) \subseteq KeyOf(e)
    /\ \A K \in KeyOf(e) :
          IF K \in KeyOf(c)
          THEN /\ IsOptionalKey(c, K) => IsOptionalKey(e, K)
               /\ \/ /\ IsLeaf(PropOf(c, K).s)
                     /\ IsLeaf(PropOf(e, K).s)
                     /\ IsAssignable(PropOf(c, K).s, PropOf(e, K).s)
                  \/ /\ IsSingleObject(PropOf(c, K).s)
                     /\ IsSingleObject(PropOf(e, K).s)
                     /\ ConformsAtEveryDepth(TheAlt(PropOf(c, K).s),
                                             TheAlt(PropOf(e, K).s))
          ELSE IsOptionalKey(e, K)

\* the field K, present on both sides, passes: the optionality is compatible
\* and the two field shapes match
FieldPasses(c, e, K) ==
    /\ IsOptionalKey(c, K) => IsOptionalKey(e, K)
    /\ match(PropOf(c, K).s, PropOf(e, K).s) = {MATCH}

-----------------------------------------------------------------------------
(* The properties.                                                         *)

\* C1: the assertion accepts exactly when every alternative of the candidate
\* is a structural subtype of some alternative of the expected type and no
\* object of the candidate, at any depth, has a field the corresponding
\* expected object lacks.
C1_AcceptsIffExact ==
    Done => (Accepts(verdict) <=> Exact(candidate, expected))

\* C2: the assertion yields exactly one of the three verdicts, never none
\* and never two at once.
C2_SingleVerdict ==
    Done => (verdict \subseteq Verdicts /\ Cardinality(verdict) = 1)

\* C3: reflexivity: every type matches itself.
C3_Reflexive ==
    (Done /\ candidate = expected) => verdict = {MATCH}

\* C4: a candidate object with a field that the expected object lacks is
\* rejected for extra properties, whatever else is wrong with it.
C4_ExtraPropertyPrecedence ==
    (/\ Done
     /\ IsSingleObject(candidate)
     /\ IsSingleObject(expected)
     /\ KeyOf(TheAlt(candidate)) \ KeyOf(TheAlt(expected)) # {})
        => verdict = {REJECTED_EXTRA_PROPERTIES}

\* an extra field together with an incompatible shared field or a missing
\* required field, rejected for extra properties
C4_Witness ==
    /\ Done
    /\ IsSingleObject(candidate)
    /\ IsSingleObject(expected)
    /\ KeyOf(TheAlt(candidate)) \ KeyOf(TheAlt(expected)) # {}
    /\ \/ \E K \in KeyOf(TheAlt(candidate)) \cap KeyOf(TheAlt(expected)) :
             /\ IsLeaf(PropOf(TheAlt(candidate), K).s)
             /\ IsLeaf(PropOf(TheAlt(expected), K).s)
             /\ ~IsAssignable(PropOf(TheAlt(candidate), K).s,
                              PropOf(TheAlt(expected), K).s)
       \/ \E K \in KeyOf(TheAlt(expected)) \ KeyOf(TheAlt(candidate)) :
             ~IsOptionalKey(TheAlt(expected), K)
    /\ verdict = {REJECTED_EXTRA_PROPERTIES}

\* C5: an extra field of a nested object is detected at any depth and gives
\* REJECTED_EXTRA_PROPERTIES; without any such field, and with every leaf a
\* subtype, the verdict is MATCH.
C5_NestedExtraProperties ==
    (Done /\ IsSingleObject(candidate) /\ IsSingleObject(expected)) =>
        /\ HasNestedExtra(TheAlt(candidate), TheAlt(expected))
              => verdict = {REJECTED_EXTRA_PROPERTIES}
        /\ ConformsAtEveryDepth(TheAlt(candidate), TheAlt(expected))
              => verdict = {MATCH}

\* {a: number, b: {a: number, b: number}} against {a: number, b: {a: number}}:
\* the extra field is one level down
C5_Witness ==
    /\ Done
    /\ IsSingleObject(candidate)
    /\ IsSingleObject(expected)
    /\ KeyOf(TheAlt(candidate)) = KeyOf(TheAlt(expected))
    /\ HasNestedExtra(TheAlt(candidate), TheAlt(expected))
    /\ verdict = {REJECTED_EXTRA_PROPERTIES}

\* C6: a candidate object without extra fields that lacks a required field
\* of the expected object is rejected as REJECTED_NOT_SUBTYPE.
C6_MissingRequiredField ==
    (/\ Done
     /\ IsSingleObject(candidate)
     /\ IsSingleObject(expected)
     /\ KeyOf(TheAlt(candidate)) \subseteq KeyOf(TheAlt(expected))
     /\ \E K \in KeyOf(TheAlt(expected)) \ KeyOf(TheAlt(candidate)) :
           ~IsOptionalKey(TheAlt(expected), K))
        => verdict = {REJECTED_NOT_SUBTYPE}

C8_SharedFieldMismatch ==
    (/\ Done
     /\ IsSingleObject(candidate)
     /\ IsSingleObject(expected)
     /\ KeyOf(TheAlt(candidate)) = KeyOf(TheAlt(expected))
     /\ \A K \in KeyOf(TheAlt(candidate)) :
           IsOptionalKey(TheAlt(candidate), K) => IsOptionalKey(TheAlt(expected), K)
     /\ \E K \in KeyOf(TheAlt(candidate)) :
           /\ IsLeaf(PropOf(TheAlt(candidate), K).s)
           /\ IsLeaf(PropOf(TheAlt(expected), K).s)
           /\ ~IsAssignable(PropOf(TheAlt(candidate), K).s,
                            PropOf(TheAlt(expected), K).s))
        => verdict = {REJECTED_NOT_SUBTYPE}

\* C9: a single candidate alternative matches an expected union as soon as
\* it matches one of its alternatives.
C9_ExistentialOnExpected ==
    (/\ Done
     /\ IsSingle(candidate)
     /\ Cardinality(expected) >= 2
     /\ \E e \in expected : match(candidate, {e}) = {MATCH})
        => verdict = {MATCH}

\* an object candidate that matches one expected alternative and is rejected
\* by another
C9_Witness ==
    /\ Done
    /\ IsSingleObject(candidate)
    /\ Cardinality(expected) >= 2
    /\ \E e \in expected : match(candidate, {e}) = {MATCH}
    /\ \E e \in expected : match(candidate, {e}) # {MATCH}
    /\ verdict = {MATCH}

\* C10: a candidate union matches exactly when each of its alternatives,
\* taken alone, matches.
C10_UniversalOnCandidate ==
    (Done /\ candidate # {}) =>
        (verdict = {MATCH}
            <=> \A c \in candidate : match({c}, expected) = {MATCH})

\* C11: a kind mismatch between two non-union alternatives (array against
\* non-array object, object against array, object or array against
\* primitive, primitive against object or array) is REJECTED_NOT_SUBTYPE.
C11_KindMismatch ==
    (/\ Done
     /\ IsSingle(candidate)
     /\ IsSingle(expected)
     /\ TheAlt(candidate).k # TheAlt(expected).k)
        => verdict = {REJECTED_NOT_SUBTYPE}

\* C12: the expected object without fields is matched by the candidate
\* object without fields, rejects every candidate object with a field for
\* extra properties, and is matched by no primitive and no array.
C12_EmptyObject ==
    (Done /\ expected = {Obj({})} /\ IsSingle(candidate)) =>
        /\ candidate = {Obj({})} => verdict = {MATCH}
        /\ (TheAlt(candidate).k = "obj" /\ TheAlt(candidate).f # {})
              => verdict = {REJECTED_EXTRA_PROPERTIES}
        /\ TheAlt(candidate).k \in {"prim", "arr"} => ~Accepts(verdict)

\* C19: a field present on both sides, optional on the candidate and
\* required on the expected object, gives REJECTED_NOT_SUBTYPE whatever the
\* two field shapes are; in the three other combinations the field is
\* decided by comparing the two field shapes alone (here: two leaves, so the
\* candidate is accepted exactly when its leaf is a subtype of the other).
C19_OptionalityReconciliation ==
    (/\ Done
     /\ IsSingleObject(candidate)
     /\ IsSingleObject(expected)
     /\ KeyOf(TheAlt(candidate)) = KeyOf(TheAlt(expected))
     /\ Cardinality(KeyOf(TheAlt(candidate))) = 1) =>
        \A K \in KeyOf(TheAlt(candidate)) :
            (IsLeaf(PropOf(TheAlt(candidate), K).s) /\ IsLeaf(PropOf(TheAlt(expected), K).s)) =>
                IF /\ IsOptionalKey(TheAlt(candidate), K)
                   /\ ~IsOptionalKey(TheAlt(expected), K)
                THEN verdict = {REJECTED_NOT_SUBTYPE}
                ELSE Accepts(verdict) <=>
                        IsAssignable(PropOf(TheAlt(candidate), K).s,
                                     PropOf(TheAlt(expected), K).s)

\* C20: the candidate without alternatives matches every expected type.
C20_UninhabitedCandidate ==
    (Done /\ candidate = Never) => verdict = {MATCH}

-----------------------------------------------------------------------------
(* The runtime assertions (assertions.ts, object.ts, arrayIncludes).       *)
(*                                                                         *)
(* A JavaScript value is a record [t, v]: t is its kind, v its payload     *)
(* written as a string (for an object: its identity).  An Error object     *)
(* carries its message as well.  A call either returns a value or throws   *)
(* one.                                                                    *)

\* longest allowedValues array
MaxAllowed == 2

Val(t, v) == [t |-> t, v |-> v]
undefined == Val("undefined", "undefined")
null == Val("null", "null")
NaN == Val("number", "NaN")
Str(s) == Val("string", s)
Num(s) == Val("number", s)
ErrorObject(id, message) == [t |-> "error", v |-> id, message |-> message]

Returned(value) == [kind |-> "returned", val |-> value]
Threw(error) == [kind |-> "threw", val |-> error]

\* typeof value
TypeOf(value) ==
    CASE value.t = "null" -> "object"
      [] value.t = "error" -> "object"
      [] OTHER -> value.t

\* !value is the negation of ToBoolean(value)
ToBoolean(value) ==
    value \notin {undefined, null, Num("0"), NaN, Str(""), Val("boolean", "false")}

\* String(value)
StringOf(value) ==
    CASE value.t = "symbol" -> "Symbol(" \o value.v \o ")"
      [] value.t = "object" -> "[object Object]"
      [] value.t = "error" ->
            IF value.message = "" THEN "Error" ELSE "Error: " \o value.message
      [] OTHER -> value.v

\* value instanceof Error
InstanceOfError(value) == value.t = "error"

\* new Error(message): an object no caller holds yet
NewError(message) == ErrorObject("new", StringOf(message))

\* a || b in place of a ?? b: every falsy message is replaced
createErrorLogicalOr(messageOrError, defaultMessage) ==
    IF InstanceOfError(messageOrError)
    THEN messageOrError
    ELSE NewError(IF ToBoolean(messageOrError)
                  THEN messageOrError
                  ELSE Str(defaultMessage))

createError(messageOrError, defaultMessage) ==
    IF InstanceOfError(messageOrError)
    THEN messageOrError
    ELSE NewError(IF messageOrError \in {null, undefined}
                  THEN Str(defaultMessage)
                  ELSE messageOrError)

assert(condition, messageOrError) ==
    IF ~ToBoolean(condition)
    THEN Threw(createError(messageOrError, "Assertion failed"))
    ELSE Returned(undefined)

assertDefined(value, messageOrError) ==
    IF value = undefined
    THEN Threw(createError(messageOrError, "Value is undefined"))
    ELSE Returned(undefined)

assertNotNull(value, messageOrError) ==
    IF value = null
    THEN Threw(createError(messageOrError, "Value is null"))
    ELSE Returned(undefined)

\* !value in place of the two comparisons
assertNotNullishFalsy(value, messageOrError) ==
    IF ~ToBoolean(value)
    THEN Threw(createError(messageOrError, "Value is null or undefined"))
    ELSE Returned(undefined)

assertNotNullish(value, messageOrError) ==
    IF value = null \/ value = undefined
    THEN Threw(createError(messageOrError, "Value is null or undefined"))
    ELSE Returned(undefined)

assertString(value, messageOrError) ==
    IF TypeOf(value) # "string"
    THEN Threw(createError(messageOrError, "Expected string, got " \o TypeOf(value)))
    ELSE Returned(undefined)

asserted(value, messageOrError) ==
    LET checked == assertNotNullish(value, messageOrError)
    IN  IF checked.kind = "threw" THEN checked ELSE Returned(value)

(* Objects: own properties (a function from property keys to values) and  *)
(* the prototype, Object.prototype or none.  A property key is a string or *)
(* a symbol; a number used as a key is converted to its string.            *)

ToPropertyKey(key) ==
    IF key.t = "symbol" THEN key ELSE Str(StringOf(key))

ObjectPrototype ==
    [k \in {Str("toString")} |-> Val("function", "Object.prototype.toString")]

\* Object.prototype.hasOwnProperty.call(obj, key)
HasOwnProperty(obj, key) == ToPropertyKey(key) \in DOMAIN obj.own

\* key in obj
HasProperty(obj, key) ==
    \/ HasOwnProperty(obj, key)
    \/ obj.proto = "Object.prototype" /\ ToPropertyKey(key) \in DOMAIN ObjectPrototype

\* obj[key]
Get(obj, key) ==
    IF HasOwnProperty(obj, key)
    THEN obj.own[ToPropertyKey(key)]
    ELSE IF obj.proto = "Object.prototype" /\ ToPropertyKey(key) \in DOMAIN ObjectPrototype
         THEN ObjectPrototype[ToPropertyKey(key)]
         ELSE undefined

\* own properties only in place of `key in obj`
exactObjGetOwn(obj, key) ==
    Returned(IF HasOwnProperty(obj, key) THEN Get(obj, key) ELSE undefined)

exactObjGet(obj, key) ==
    Returned(IF HasProperty(obj, key) THEN Get(obj, key) ELSE undefined)

\* own properties only in place of `key in obj`
assertedExactObjKeyOfOwn(obj, key, messageOrError) ==
    IF TypeOf(key) \notin {"string", "number", "symbol"}
    THEN Threw(createError(messageOrError,
            "Key \"" \o StringOf(key) \o "\" is not a valid key of the object"))
    ELSE IF ~HasOwnProperty(obj, key)
         THEN Threw(createError(messageOrError,
                "Key \"" \o StringOf(key) \o "\" is not a valid key of the object"))
         ELSE Returned(key)

assertedExactObjKeyOf(obj, key, messageOrError) ==
    IF TypeOf(key) \notin {"string", "number", "symbol"}
    THEN Threw(createError(messageOrError,
            "Key \"" \o StringOf(key) \o "\" is not a valid key of the object"))
    ELSE IF ~HasProperty(obj, key)
         THEN Threw(createError(messageOrError,
                "Key \"" \o StringOf(key) \o "\" is not a valid key of the object"))
         ELSE Returned(key)

assertedExactObjProperty(obj, key, messageOrError) ==
    LET validKey == assertedExactObjKeyOf(obj, key, messageOrError)
    IN  IF validKey.kind = "threw"
        THEN validKey
        ELSE Returned(Get(obj, validKey.val))

(* Arrays of allowed values are sequences of values.                       *)

\* x === y
StrictEquals(x, y) == x = y /\ x # NaN

SameValueZero(x, y) == (x = NaN /\ y = NaN) \/ StrictEquals(x, y)

\* array.indexOf(value) !== -1 in place of array.includes(value)
includesStrictEquals(array, value) ==
    \E i \in 1..Len(array) : StrictEquals(array[i], value)

\* Array.prototype.includes
includes(array, value) ==
    \E i \in 1..Len(array) : SameValueZero(array[i], value)

RECURSIVE Join(_, _)
\* array.map(String).join(separator)
Join(array, separator) ==
    IF Len(array) = 0 THEN ""
    ELSE IF Len(array) = 1 THEN StringOf(array[1])
    ELSE StringOf(array[1]) \o separator \o Join(Tail(array), separator)

assertOneOf(value, allowedValues, messageOrError) ==
    IF ~includes(allowedValues, value)
    THEN Threw(createError(messageOrError,
            "Value \"" \o StringOf(value) \o "\" is not one of the allowed values: ["
                \o Join(allowedValues, ", ") \o "]"))
    ELSE Returned(undefined)

assertedOneOf(value, allowedValues, messageOrError) ==
    LET checked == assertOneOf(value, allowedValues, messageOrError)
    IN  IF checked.kind = "threw" THEN checked ELSE Returned(value)

arrayIncludes(array, value) ==
    Returned(Val("boolean", IF includes(array, value) THEN "true" ELSE "false"))

(* The calls that are checked: one call of one function per behaviour.    *)

Values ==
    {undefined, null, Num("0"), Num("1"), NaN, Str(""), Str("a"), Str("1"),
     Val("boolean", "false"), Val("boolean", "true"), Val("symbol", "s"),
     Val("object", "o1"), Val("object", "o2")}

\* omitted, a string (the empty one included), the caller's Error object
MessageOrErrors ==
    {undefined, Str(""), Str("boom"), ErrorObject("caller", "mine")}

Keys == Values \cup {Str("b"), Str("toString")}

OwnKeys == {Str("a"), Str("1"), Val("symbol", "s")}

PropValues == {undefined, Num("1"), Str("a")}

Objs ==
    {[own |-> own, proto |-> proto] :
        own \in UNION {[D -> PropValues] : D \in SUBSET OwnKeys},
        proto \in {"Object.prototype", "null"}}

AllowedElems == {undefined, Num("0"), NaN, Str("a"), Val("object", "o1")}

AllowedArrays == UNION {[1..n -> AllowedElems] : n \in 0..MaxAllowed}

RuntimeCalls ==
    [fn : {"assert"}, condition : Values, messageOrError : MessageOrErrors]
    \cup [fn : {"assertDefined", "assertNotNull", "assertNotNullish",
                "assertString", "asserted"},
          value : Values, messageOrError : MessageOrErrors]
    \cup [fn : {"exactObjGet"}, obj : Objs,
          key : {key \in Keys : TypeOf(key) \in {"string", "number", "symbol"}}]
    \cup [fn : {"assertedExactObjKeyOf", "assertedExactObjProperty"},
          obj : Objs, key : Keys, messageOrError : MessageOrErrors]
    \cup [fn : {"assertOneOf", "assertedOneOf"},
          value : Values, allowedValues : AllowedArrays,
          messageOrError : MessageOrErrors]
    \cup [fn : {"arrayIncludes"}, array : AllowedArrays, value : Values]

InitRuntime ==
    /\ call \in RuntimeCalls
    /\ outcome = NoOutcome
    /\ pc = "start"
    /\ candidate = Never
    /\ expected = Never
    /\ verdict = {}

\* the call of fn runs to its end; the arguments are not written
Run(fn, result) ==
    /\ pc = "start"
    /\ call.fn = fn
    /\ outcome' = result
    /\ pc' = "done"
    /\ UNCHANGED <<call, candidate, expected, verdict>>

Call_assert == Run("assert", assert(call.condition, call.messageOrError))

Call_assertDefined ==
    Run("assertDefined", assertDefined(call.value, call.messageOrError))

Call_assertNotNull ==
    Run("assertNotNull", assertNotNull(call.value, call.messageOrError))

Call_assertNotNullish ==
    Run("assertNotNullish", assertNotNullish(call.value, call.messageOrError))

Call_assertString ==
    Run("assertString", assertString(call.value, call.messageOrError))

Call_asserted == Run("asserted", asserted(call.value, call.messageOrError))

Call_exactObjGet == Run("exactObjGet", exactObjGet(call.obj, call.key))

Call_assertedExactObjKeyOf ==
    Run("assertedExactObjKeyOf",
        assertedExactObjKeyOf(call.obj, call.key, call.messageOrError))

Call_assertedExactObjProperty ==
    Run("assertedExactObjProperty",
        assertedExactObjProperty(call.obj, call.key, call.messageOrError))

Call_assertOneOf ==
    Run("assertOneOf",
        assertOneOf(call.value, call.allowedValues, call.messageOrError))

Call_assertedOneOf ==
    Run("assertedOneOf",
        assertedOneOf(call.value, call.allowedValues, call.messageOrError))

Call_arrayIncludes ==
    Run("arrayIncludes", arrayIncludes(call.array, call.value))

NextRuntime ==
    \/ Call_assert
    \/ Call_assertDefined
    \/ Call_assertNotNull
    \/ Call_assertNotNullish
    \/ Call_assertString
    \/ Call_asserted
    \/ Call_exactObjGet
    \/ Call_assertedExactObjKeyOf
    \/ Call_assertedExactObjProperty
    \/ Call_assertOneOf
    \/ Call_assertedOneOf
    \/ Call_arrayIncludes

SpecRuntime == InitRuntime /\ [][NextRuntime]_vars

-----------------------------------------------------------------------------
(* Properties of the runtime assertions.                                   *)

Throws == Done /\ outcome.kind = "threw"

Returns == Done /\ outcome.kind = "returned"

\* the default message of the assertion that is called
DefaultMessageOf(c) ==
    CASE c.fn = "assert" -> "Assertion failed"
      [] c.fn = "assertDefined" -> "Value is undefined"
      [] c.fn = "assertNotNull" -> "Value is null"
      [] c.fn \in {"assertNotNullish", "asserted"} -> "Value is null or undefined"
      [] c.fn = "assertString" -> "Expected string, got " \o TypeOf(c.value)
      [] c.fn \in {"assertedExactObjKeyOf", "assertedExactObjProperty"} ->
            "Key \"" \o StringOf(c.key) \o "\" is not a valid key of the object"
      [] c.fn \in {"assertOneOf", "assertedOneOf"} ->
            "Value \"" \o StringOf(c.value)
                \o "\" is not one of the allowed values: ["
                \o Join(c.allowedValues, ", ") \o "]"

\* C13: whenever a runtime assertion throws, the thrown value is the
\* caller's own Error object when messageOrError is an Error, a new Error
\* whose message is exactly the given string when it is a string (the empty
\* string included), and a new Error with the assertion's default message
\* when it is omitted.
C13_ErrorConstruction ==
    Throws =>
        /\ call.messageOrError.t = "error" => outcome.val = call.messageOrError
        /\ call.messageOrError.t = "string" =>
                outcome.val = ErrorObject("new", call.messageOrError.v)
        /\ call.messageOrError = undefined =>
                outcome.val = ErrorObject("new", DefaultMessageOf(call))

C13_Witness ==
    /\ Throws
    /\ call.fn = "assertOneOf"
    /\ call.messageOrError = Str("")
    /\ outcome.val = ErrorObject("new", "")

\* C14: asserted(value) throws exactly when value is null or undefined, and
\* returns every other value, the falsy 0, '', false and NaN included, as it
\* was given.
C14_AssertedReturnsValue ==
    (Done /\ call.fn = "asserted") =>
        IF call.value \in {null, undefined}
        THEN outcome.kind = "threw"
        ELSE outcome = Returned(call.value)

C14_Witness ==
    /\ Done
    /\ call.fn = "asserted"
    /\ call.value = NaN
    /\ outcome = Returned(NaN)

\* C15: assertedExactObjKeyOf(obj, key) returns the key unchanged exactly
\* when key is a string, number or symbol and `key in obj` holds, throws in
\* every other case, and leaves obj as it was.
C15_KeyReturnedIffInObj ==
    /\ []((Done /\ call.fn = "assertedExactObjKeyOf") =>
            IF /\ TypeOf(call.key) \in {"string", "number", "symbol"}
               /\ HasProperty(call.obj, call.key)
            THEN outcome = Returned(call.key)
            ELSE outcome.kind = "threw")
    /\ [][call.fn = "assertedExactObjKeyOf" => call'.obj = call.obj]_vars

C15_Witness ==
    /\ Done
    /\ call.fn = "assertedExactObjKeyOf"
    /\ call.key = Num("1")
    /\ HasOwnProperty(call.obj, Str("1"))
    /\ outcome = Returned(Num("1"))

\* C16: exactObjGet(obj, key) never throws, returns obj[key] when the key
\* exists in obj and undefined otherwise; whenever
\* assertedExactObjProperty(obj, key) returns, it returns what exactObjGet
\* returns, and a present key whose value is undefined is returned as
\* undefined, not treated as missing.
C16_GetAgreesWithAssertedProperty ==
    /\ (Done /\ call.fn = "exactObjGet") =>
            outcome = Returned(IF HasProperty(call.obj, call.key)
                               THEN Get(call.obj, call.key)
                               ELSE undefined)
    /\ (Returns /\ call.fn = "assertedExactObjProperty") =>
            outcome = exactObjGet(call.obj, call.key)
    /\ (/\ Done
        /\ call.fn = "assertedExactObjProperty"
        /\ TypeOf(call.key) \in {"string", "number", "symbol"}
        /\ HasOwnProperty(call.obj, call.key)
        /\ call.obj.own[ToPropertyKey(call.key)] = undefined) =>
            outcome = Returned(undefined)

C16_Witness ==
    /\ Returns
    /\ call.fn = "assertedExactObjProperty"
    /\ HasOwnProperty(call.obj, call.key)
    /\ call.obj.own[ToPropertyKey(call.key)] = undefined
    /\ outcome = Returned(undefined)

\* value is an element of the array
IsElement(value, array) == \E i \in 1..Len(array) : array[i] = value

\* C17: assertOneOf(value, allowedValues) throws exactly when value is not
\* an element of allowedValues, so always when allowedValues is empty;
\* assertedOneOf throws in the same cases and otherwise returns the value
\* unchanged; arrayIncludes(allowedValues, value) is true exactly when
\* assertOneOf does not throw.
C17_OneOfMembership ==
    /\ (Done /\ call.fn = "assertOneOf") =>
            /\ outcome.kind = "threw" <=> ~IsElement(call.value, call.allowedValues)
            /\ Len(call.allowedValues) = 0 => outcome.kind = "threw"
    /\ (Done /\ call.fn = "assertedOneOf") =>
            /\ outcome.kind = "threw" <=>
                    assertOneOf(call.value, call.allowedValues,
                                call.messageOrError).kind = "threw"
            /\ IF IsElement(call.value, call.allowedValues)
               THEN outcome = Returned(call.value)
               ELSE outcome.kind = "threw"
    /\ (Done /\ call.fn = "arrayIncludes") =>
            /\ outcome.kind = "returned"
            /\ outcome.val = Val("boolean", "true") <=>
                    assertOneOf(call.value, call.array, undefined).kind = "returned"
            /\ outcome.val = Val("boolean", "true") <=>
                    IsElement(call.value, call.array)

C17_Witness ==
    /\ Done
    /\ call.fn = "assertedOneOf"
    /\ call.value = NaN
    /\ Len(call.allowedValues) = 2
    /\ outcome = Returned(NaN)

-----------------------------------------------------------------------------
(* tsAssertExhaustiveKeys<T, K>(): T is an object type, K the tuple type   *)
(* of a keys array, a sequence of key literals.                            *)

\* longest keys array
MaxKeys == 3

\* one direction only: B extends A
IfEqualsOneWay(A, B, TrueValueT, FalseValueT) ==
    IF B \subseteq A THEN TrueValueT ELSE FalseValueT

\* the two types are the same type: the same set of alternatives
IfEquals(A, B, TrueValueT, FalseValueT) ==
    IF A = B THEN TrueValueT ELSE FalseValueT

\* K[number]
ElementsOf(K) == {K[i] : i \in 1..Len(K)}

\* the constraint K extends readonly (keyof T)[], then the rest parameter:
\* a call without arguments fits [] and does not fit never
tsAssertExhaustiveKeys(T, K) ==
    IF ~(\A i \in 1..Len(K) : K[i] \in KeyOf(T))
    THEN [kind |-> "rejected"]
    ELSE IF IfEquals(KeyOf(T), ElementsOf(K), "[]", "never") = "[]"
         THEN [kind |-> "accepted"]
         ELSE [kind |-> "rejected"]

KeyNames == {"a", "b", "c"}

KeyedObjs ==
    {Obj({Field(n, Number, optional) : n \in D}) :
        D \in SUBSET KeyNames, optional \in BOOLEAN}

KeyTuples == UNION {[1..n -> KeyNames] : n \in 0..MaxKeys}

InitExhaustiveKeys ==
    /\ call \in [fn : {"tsAssertExhaustiveKeys"}, T : KeyedObjs, K : KeyTuples]
    /\ outcome = NoOutcome
    /\ pc = "start"
    /\ candidate = Never
    /\ expected = Never
    /\ verdict = {}

TsAssertExhaustiveKeys ==
    /\ pc = "start"
    /\ call.fn = "tsAssertExhaustiveKeys"
    /\ outcome' = tsAssertExhaustiveKeys(call.T, call.K)
    /\ pc' = "done"
    /\ UNCHANGED <<call, candidate, expected, verdict>>

NextExhaustiveKeys == TsAssertExhaustiveKeys

SpecExhaustiveKeys == InitExhaustiveKeys /\ [][NextExhaustiveKeys]_vars

\* C18: tsAssertExhaustiveKeys accepts exactly when the set of elements of
\* the keys array is the set of keys of the object type, whatever the order
\* of the array; a missing key and an extra key are rejected, and the empty
\* object with the empty array is accepted.
C18_ExhaustiveKeys ==
    Done =>
        /\ outcome.kind = "accepted" <=> ElementsOf(call.K) = KeyOf(call.T)
        /\ (\E n \in KeyOf(call.T) : n \notin ElementsOf(call.K)) =>
                outcome.kind = "rejected"
        /\ (\E n \in ElementsOf(call.K) : n \notin KeyOf(call.T)) =>
                outcome.kind = "rejected"
        /\ (KeyOf(call.T) = {} /\ Len(call.K) = 0) => outcome.kind = "accepted"

C18_Witness ==
    /\ Done
    /\ call.K = <<"b", "a">>
    /\ KeyOf(call.T) = {"a", "b"}
    /\ outcome.kind = "accepted"

-----------------------------------------------------------------------------
(* Further properties of tsAssertExtendsExact.                             *)

\* the expected alternative e rejects the object c for a reason other than
\* an extra property: it is no object, or it has every field of c and a
\* required field that c lacks
RejectsForOtherReason(c, e) ==
    \/ c.k # e.k
    \/ /\ c.k = "obj"
       /\ KeyOf(c) \subseteq KeyOf(e)
       /\ \E K \in KeyOf(e) \ KeyOf(c) : ~IsOptionalKey(e, K)

\* C21: when a single candidate alternative matches no alternative of an
\* expected union, the verdict is REJECTED_NOT_SUBTYPE as soon as one
\* expected alternative rejects it for a reason other than extra properties
\* (a missing required field, a kind mismatch).
C21_FailureVerdictOverUnion ==
    (/\ Done
     /\ IsSingle(candidate)
     /\ Cardinality(expected) >= 2
     /\ ~Accepts(verdict)
     /\ \A e \in expected : ~Exact(candidate, {e})
     /\ \E e \in expected : RejectsForOtherReason(TheAlt(candidate), e))
        => verdict = {REJECTED_NOT_SUBTYPE}

\* the single field of an object with exactly one, required, field
IsWrapped(T) ==
    /\ IsSingleObject(T)
    /\ Cardinality(TheAlt(T).f) = 1
    /\ \A fld \in TheAlt(T).f : ~fld.opt
TheField(T) == CHOOSE fld \in TheAlt(T).f : TRUE

\* C22: wrapping both shapes in a field required on both sides preserves the
\* verdict: match({K: c}, {K: e}) = match(c, e).
C22_FieldWrapping ==
    (/\ Done
     /\ IsWrapped(candidate)
     /\ IsWrapped(expected)
     /\ TheField(candidate).n = TheField(expected).n)
        => verdict = match(TheField(candidate).s, TheField(expected).s)

IsSingleArray(T) == IsSingle(T) /\ TheAlt(T).k = "arr"

LeafMatches(c, e) ==
    IF c.lit # 0
    THEN \/ e.lit # 0 /\ e.base = c.base /\ e.lit = c.lit
         \/ e.lit = 0 /\ e.base = c.base
    ELSE e.lit = 0 /\ e.base = c.base

\* C24: a literal candidate matches an expected literal only when the two
\* values are identical and a non-literal expected kind exactly when it is
\* the literal's base type; a non-literal candidate matches only the same
\* non-literal kind and never an expected literal.
C24_LeafMatching ==
    (Done /\ IsLeaf(candidate) /\ IsLeaf(expected)) =>
        /\ verdict = {MATCH} <=>
                \A c \in candidate : \E e \in expected : LeafMatches(c, e)
        /\ Accepts(verdict) => verdict = {MATCH}

\* a literal against its base type
C24_Witness ==
    /\ Done
    /\ candidate = {Lit(3)}
    /\ expected = {Number}
    /\ verdict = {MATCH}

\* the exact comparison fails for one of the reasons of C28: an extra key,
\* a missing required field, an optionality conflict or a leaf mismatch
\* between two objects, or an object or array against another kind
StructuralFailure(c, e) ==
    \/ /\ c.k = "obj"
       /\ e.k = "obj"
       /\ \/ KeyOf(c) \ KeyOf(e) # {}
          \/ \E K \in KeyOf(e) \ KeyOf(c) : ~IsOptionalKey(e, K)
          \/ \E K \in KeyOf(c) \cap KeyOf(e) :
                \/ IsOptionalKey(c, K) /\ ~IsOptionalKey(e, K)
                \/ /\ IsLeaf(IndexedAccess(c, K))
                   /\ IsLeaf(IndexedAccess(e, K))
                   /\ ~IsAssignable(IndexedAccess(c, K), IndexedAccess(e, K))
    \/ c.k \in {"obj", "arr"} /\ e.k # c.k

WideningAlts == TopAlts \cup Prims

\* the union of T and the alternative x is a type of the universe's form
IsWidening(T, x) ==
    /\ x \notin T
    /\ Reduced({p \in T \cup {x} : p.k = "prim"})

\* C29: widening the expected type keeps a match: if match(c, e) = MATCH then
\* match(c, e | x) = MATCH for every further alternative x.
C29_MonotoneInExpected ==
    (Done /\ verdict = {MATCH}) =>
        \A x \in WideningAlts :
            IsWidening(expected, x) => match(candidate, expected \cup {x}) = {MATCH}

\* C30: transitivity: if match(A, B) = MATCH and match(B, C) = MATCH then
\* match(A, C) = MATCH (A the candidate, B the expected type, C any type).
C30_Transitive ==
    (Done /\ verdict = {MATCH}) =>
        \A C \in Universe :
            match(expected, C) = {MATCH} => match(candidate, C) = {MATCH}

====
